---- MODULE Spec2Model ----
(***************************************************************************)
(* Model of src/bdk_cli.rs: the command-line front end of bdk-cli.         *)
(* main() either runs one command built from the process arguments or      *)
(* enters the REPL loop, which reads lines, splits them with               *)
(* REPL_LINE_SPLIT_REGEX, parses them into a ReplSubCommand and calls one  *)
(* of the three handlers of the bdk_cli library.                           *)
(*                                                                         *)
(* Strings are sequences of one-character strings.  Text written to        *)
(* stdout / stderr is kept as records that say how it was formatted.       *)
(***************************************************************************)
EXTENDS Integers, Sequences, FiniteSets, TLC

VARIABLES
    pc,             \* position of main: "main", "Running", "Terminated", "Exited", "Panicked", "tok", "tok_done"
    network,        \* cli_opts.network
    feature_esplora,\* cfg(feature = "esplora") of the build
    subcommand,     \* cli_opts.subcommand: "Online", "Offline", "Key", "Repl"
    wallet_opts,    \* the backend options of WalletOpts
    env,            \* what the collaborators will answer during setup
    database,       \* number of times open_database has opened the tree
    wallet,         \* the wallet handle built by new_online_wallet / new_offline_wallet, or NoWallet
    store,          \* version of the wallet's records, changed only by wallet handlers
    reads,          \* number of rl.readline(">> ") calls, each printing the prompt
    readline,       \* kind of the last readline result: "none", "Ok", "Interrupted", "Eof", "Err"
    line,           \* the line of the last Ok(line)
    split_line,     \* the tokens of that line
    cycle,          \* the stages the last loop iteration went through
    result,         \* the handler result of the last command or loop iteration, None when no handler ran in it
    config,         \* the blockchain config built by new_online_wallet, None before
    calls,          \* handler invocations so far, oldest first
    stdout,         \* what println! wrote, oldest first
    stderr,         \* what the panic hook wrote
    exit_status     \* None while running, else Some(status of the process)

vars == <<pc, network, feature_esplora, subcommand, wallet_opts, env, database, wallet,
          store, reads, readline, line, split_line, cycle, result, config,
          calls, stdout, stderr, exit_status>>

----------------------------------------------------------------------------
(* Bounds *)

\* longest line of the exhaustive tokenizer inputs
MaxLen == 4
\* most readline calls in one REPL session
MaxReads == 3

----------------------------------------------------------------------------
(* Characters *)

DQ == "\""
SQ == "'"
\* characters the exhaustive tokenizer inputs are built from
Alphabet == {"a", "-", " ", DQ, SQ, "!"}
\* Unicode White_Space characters that occur in the inputs (str::trim)
Whitespace == {" ", "\t"}
\* the ASCII characters of the class \w that occur in the inputs
WordChars == {"a", "b", "c", "d", "e", "f", "g", "h", "i", "j", "k", "l", "m",
              "n", "o", "p", "q", "r", "s", "t", "u", "v", "w", "x", "y", "z",
              "0", "1", "2", "3", "4", "5", "6", "7", "8", "9", "_"}

\* mutant: the dash is missing from the class
IsWordOrDash_NoDash(c) == c \in WordChars

\* mutant: the exclamation mark is in the class
IsWordOrDash_Bang(c) == c \in WordChars \/ c = "-" \/ c = "!"

\* [\w\-]
IsWordOrDash(c) == c \in WordChars \/ c = "-"

----------------------------------------------------------------------------
\* REPL_LINE_SPLIT_REGEX: three alternatives, tried in this order:
\*   1. a double quote, any characters but double quotes (group 1), a double quote
\*   2. the same with single quotes (group 2)
\*   3. one or more word characters or dashes (group 3)

\* least j >= i with s[j] = q, or 0 when there is none
RECURSIVE IndexFrom(_, _, _)
IndexFrom(s, q, i) ==
    IF i > Len(s) THEN 0
    ELSE IF s[i] = q THEN i
    ELSE IndexFrom(s, q, i + 1)

\* mutant: the run stops after one character (a lazy +)
WordEnd_Lazy(s, i) == i

\* last index of the longest run of [\w\-] that starts at i (greedy +)
RECURSIVE WordEnd(_, _)
WordEnd(s, i) ==
    IF i < Len(s) /\ IsWordOrDash(s[i + 1]) THEN WordEnd(s, i + 1) ELSE i

\* One capture: the span of the whole match and the three groups, each
\* <<>> when the group did not take part in the match and <<text>> when it did.
Capture(first, last, g1, g2, g3) ==
    [first |-> first, last |-> last, g1 |-> g1, g2 |-> g2, g3 |-> g3]

\* mutant: a quote without a closing quote swallows the rest of the line
RECURSIVE captures_iter_DropsRest(_, _)
captures_iter_DropsRest(s, i) ==
    IF i > Len(s) THEN << >>
    ELSE IF s[i] = DQ THEN
        LET j == IndexFrom(s, DQ, i + 1)
        IN  IF j = 0 THEN << >>
            ELSE <<Capture(i, j, <<SubSeq(s, i + 1, j - 1)>>, <<>>, <<>>)>>
                    \o captures_iter_DropsRest(s, j + 1)
    ELSE IF s[i] = SQ THEN
        LET j == IndexFrom(s, SQ, i + 1)
        IN  IF j = 0 THEN << >>
            ELSE <<Capture(i, j, <<>>, <<SubSeq(s, i + 1, j - 1)>>, <<>>)>>
                    \o captures_iter_DropsRest(s, j + 1)
    ELSE IF IsWordOrDash(s[i]) THEN
        LET j == WordEnd(s, i)
        IN  <<Capture(i, j, <<>>, <<>>, <<SubSeq(s, i, j)>>)>>
                \o captures_iter_DropsRest(s, j + 1)
    ELSE captures_iter_DropsRest(s, i + 1)

\* captures_iter: the successive non-overlapping leftmost matches from
\* position i on; at one position the alternatives are tried in order.
RECURSIVE captures_iter(_, _)
captures_iter(s, i) ==
    IF i > Len(s) THEN << >>
    ELSE IF s[i] = DQ /\ IndexFrom(s, DQ, i + 1) # 0 THEN
        LET j == IndexFrom(s, DQ, i + 1)
        IN  <<Capture(i, j, <<SubSeq(s, i + 1, j - 1)>>, <<>>, <<>>)>>
                \o captures_iter(s, j + 1)
    ELSE IF s[i] = SQ /\ IndexFrom(s, SQ, i + 1) # 0 THEN
        LET j == IndexFrom(s, SQ, i + 1)
        IN  <<Capture(i, j, <<>>, <<SubSeq(s, i + 1, j - 1)>>, <<>>)>>
                \o captures_iter(s, j + 1)
    ELSE IF IsWordOrDash(s[i]) THEN
        LET j == WordEnd(s, i)
        IN  <<Capture(i, j, <<>>, <<>>, <<SubSeq(s, i, j)>>)>>
                \o captures_iter(s, j + 1)
    ELSE captures_iter(s, i + 1)

\* c.get(1).or_else(|| c.get(2)).or_else(|| c.get(3)).unwrap().as_str()
\* Unwrapped is <<>> exactly when the unwrap would panic.
Unwrapped(c) ==
    IF c.g1 # <<>> THEN c.g1
    ELSE IF c.g2 # <<>> THEN c.g2
    ELSE c.g3

\* split_line: the captures mapped to their group's text
SplitLine(s) ==
    LET caps == captures_iter(s, 1)
    IN  [k \in 1..Len(caps) |-> Unwrapped(caps[k])[1]]

\* str::trim: s without its leading and trailing whitespace
RECURSIVE TrimStart(_)
TrimStart(s) ==
    IF s # <<>> /\ Head(s) \in Whitespace THEN TrimStart(Tail(s)) ELSE s

RECURSIVE TrimEnd(_)
TrimEnd(s) ==
    IF s # <<>> /\ s[Len(s)] \in Whitespace
    THEN TrimEnd(SubSeq(s, 1, Len(s) - 1)) ELSE s

\* mutant: the line is compared without trimming
Trim_None(s) == s

Trim(s) == TrimEnd(TrimStart(s))

----------------------------------------------------------------------------
(* Values *)

NoWallet == [kind |-> "none"]
\* Option: <<>> is None, <<x>> is Some(x)
None == << >>
Some(x) == <<x>>

\* Result of a collaborator call
Ok(v) == [ok |-> TRUE, val |-> v]
Err(e) == [ok |-> FALSE, err |-> e]

\* What a handler of the bdk_cli library can return: a JSON value or a bdk::Error
HandlerResults == {Ok("value"), Err("Generic")}

\* serde_json::to_string_pretty(&v).unwrap(): the pretty-printed JSON text of v
to_string_pretty(v) == [fmt |-> "json_pretty", of |-> v]
\* the Display text of a clap error message
DisplayOf(m) == [fmt |-> "display", of |-> m]
\* the Debug text of an error
DebugOf(e) == [fmt |-> "debug", of |-> e]
\* the text the panic hook writes for Result::unwrap on an Err
PanicOf(e) == [fmt |-> "panic", of |-> DebugOf(e)]
\* a string literal
Literal(t) == [fmt |-> "literal", of |-> t]

----------------------------------------------------------------------------
(* new_online_wallet, new_offline_wallet, open_database *)

\* config_esplora: Some(Esplora config) when the feature is compiled in and
\* an Esplora base URL was given, else None
config_esplora(feature, opts) ==
    IF feature /\ opts.esplora # None
    THEN Some([kind |-> "Esplora",
               base_url |-> opts.esplora[1],
               concurrency |-> Some(opts.esplora_concurrency)])
    ELSE None

config_electrum(opts) ==
    [kind |-> "Electrum",
     url |-> opts.electrum,
     socks5 |-> opts.proxy,
     retry |-> opts.retries,
     timeout |-> opts.timeout]

\* mutant: the Electrum config wins
BlockchainConfig_ElectrumFirst(feature, opts) ==
    config_electrum(opts)

\* config_esplora.unwrap_or(config_electrum)
BlockchainConfig(feature, opts) ==
    IF config_esplora(feature, opts) # None
    THEN config_esplora(feature, opts)[1]
    ELSE config_electrum(opts)

\* mutant: an unreachable backend is not noticed
new_online_wallet_NoConnect(feature, opts, e, id) ==
    IF ~e.descriptor_ok THEN Err("Descriptor")
    ELSE Ok([kind |-> "online", id |-> id,
             blockchain |-> BlockchainConfig(feature, opts)])

\* new_online_wallet: AnyBlockchain::from_config(&config)? is evaluated
\* first, then Wallet::new(..)?
new_online_wallet(feature, opts, e, id) ==
    IF ~e.backend_ok THEN Err("Blockchain")
    ELSE IF ~e.descriptor_ok THEN Err("Descriptor")
    ELSE Ok([kind |-> "online", id |-> id,
             blockchain |-> BlockchainConfig(feature, opts)])

\* new_offline_wallet: Wallet::new_offline(..)?
new_offline_wallet(opts, e, id) ==
    IF ~e.descriptor_ok THEN Err("Descriptor")
    ELSE Ok([kind |-> "offline", id |-> id])

\* open_database: sled::open(..).unwrap() and open_tree(..).unwrap()
open_database(e) ==
    IF e.db_ok THEN Ok("tree") ELSE Err("sled")

----------------------------------------------------------------------------
(* ReplSubCommand::from_iter_safe *)

exit_ == <<"e", "x", "i", "t">>
sync_ == <<"s", "y", "n", "c">>
get_new_address_ ==
    <<"g", "e", "t", "_", "n", "e", "w", "_", "a", "d", "d", "r", "e", "s", "s">>
generate_ == <<"g", "e", "n", "e", "r", "a", "t", "e">>
restore_ == <<"r", "e", "s", "t", "o", "r", "e">>
dash_m == <<"-", "m">>
dash_p == <<"-", "p">>

Parsed(variant, tokens) ==
    [ok |-> TRUE, variant |-> variant, name |-> tokens[1], args |-> Tail(tokens)]
Rejected(kind) ==
    [ok |-> FALSE, message |-> kind]

\* The grammar of ReplSubCommand: the sub-commands of the three flattened
\* enums and exit.  The first token names the sub-command (NoBinaryName).
from_iter_safe(tokens) ==
    IF tokens = << >> THEN Rejected("MissingArgumentOrSubcommand")
    ELSE IF tokens[1] = exit_ THEN
        IF Len(tokens) = 1 THEN Parsed("Exit", tokens)
        ELSE Rejected("UnknownArgument")
    ELSE IF tokens[1] = sync_ THEN
        IF Len(tokens) = 1 THEN Parsed("OnlineWalletSubCommand", tokens)
        ELSE Rejected("UnknownArgument")
    ELSE IF tokens[1] = get_new_address_ THEN
        IF Len(tokens) = 1 THEN Parsed("OfflineWalletSubCommand", tokens)
        ELSE Rejected("UnknownArgument")
    ELSE IF tokens[1] = generate_ THEN
        IF Len(tokens) = 1 THEN Parsed("KeySubCommand", tokens)
        ELSE Rejected("UnknownArgument")
    ELSE IF tokens[1] = restore_ THEN
        IF Len(tokens) = 5 /\ tokens[2] = dash_m /\ tokens[4] = dash_p
        THEN Parsed("KeySubCommand", tokens)
        ELSE Rejected("MissingRequiredArgument")
    ELSE Rejected("UnrecognizedSubcommand")

----------------------------------------------------------------------------
(* Inputs *)

\* the backend options of WalletOpts; without the esplora feature the
\* options struct has no esplora fields
WalletOptsOf(feature) ==
    [esplora : IF feature THEN {None, Some("https://esplora")} ELSE {None},
     esplora_concurrency : {4},
     electrum : {"ssl://electrum:60002"},
     proxy : {Some("127.0.0.1:9050")},
     retries : {5},
     timeout : {None}]

\* values of the network option
Networks == {"testnet", "bitcoin"}

\* answers of the collaborators during setup
Envs == [db_ok : BOOLEAN, backend_ok : BOOLEAN, descriptor_ok : BOOLEAN]

sp == <<" ">>
bang == <<"!">>

\* lines typed into the REPL
ReplLines ==
    { << >>,                                    \* empty
      <<"\t", " ">>,                            \* tab and space
      exit_,
      <<SQ>> \o exit_ \o <<SQ>>,                \* quoted exit
      exit_ \o sp \o <<"n", "o", "w">>,         \* exit with an argument
      sync_,
      <<DQ>> \o sync_,                          \* unterminated quote, then sync
      get_new_address_,
      restore_ \o sp \o dash_m \o sp \o <<DQ, "a", " ", "b", DQ>> \o sp
          \o dash_p \o sp \o <<SQ, "c", "!", SQ>>,
      <<"b", "a", "d">>,                        \* unknown sub-command
      bang \o bang \o bang }                    \* no token at all

\* errors of rl.readline other than Interrupted and Eof
ReadlineErrors == {"Io"}

\* the two lines of the unit tests, lines 275 and 301
TestLineDouble ==
    restore_ \o sp \o dash_m \o sp
    \o <<DQ, "w", "o", "r", "d", "1", " ", "w", "o", "r", "d", "2", " ",
         "w", "o", "r", "d", "3", DQ>>
    \o sp \o dash_p \o sp
    \o <<SQ, "t", "e", "s", "t", "!", " ", "1", "2", "3", " ", "-",
         "t", "e", "s", "t", SQ>>
    \o sp

TestLineSingle ==
    restore_ \o sp \o dash_m \o sp
    \o <<SQ, "w", "o", "r", "d", "1", " ", "w", "o", "r", "d", "2", " ",
         "w", "o", "r", "d", "3", SQ>>
    \o sp \o dash_p \o sp
    \o <<DQ, "t", "e", "s", "t", " ", "*", "1", "2", "3", " ", "-",
         "t", "e", "s", "t", DQ>>
    \o sp

\* all lines over Alphabet of length at most n
RECURSIVE LinesUpTo(_)
LinesUpTo(n) ==
    IF n = 0 THEN {<< >>}
    ELSE LET shorter == LinesUpTo(n - 1)
         IN  shorter \cup {Append(l, c) : l \in {x \in shorter : Len(x) = n - 1},
                                           c \in Alphabet}

TokLines == LinesUpTo(MaxLen) \cup {TestLineDouble, TestLineSingle}

----------------------------------------------------------------------------
(* main *)

\* what no part of main has touched yet
Untouched ==
    /\ database = 0
    /\ wallet = NoWallet
    /\ store = 0
    /\ reads = 0
    /\ readline = "none"
    /\ split_line = << >>
    /\ cycle = << >>
    /\ result = None
    /\ config = None
    /\ calls = << >>
    /\ stdout = << >>
    /\ stderr = << >>
    /\ exit_status = None

\* the state after CliOpts::from_args, lines 150-158
Init ==
    /\ pc = "main"
    /\ network \in Networks
    /\ feature_esplora \in BOOLEAN
    /\ subcommand \in {"Online", "Offline", "Key", "Repl"}
    /\ wallet_opts \in WalletOptsOf(feature_esplora)
    /\ env \in Envs
    /\ line = << >>
    /\ Untouched

\* mutant: the process ends with status 0 after a panic
Panic_StatusZero(e) ==
    /\ pc' = "Panicked"
    /\ stderr' = Append(stderr, PanicOf(e))
    /\ exit_status' = Some(0)

\* Result::unwrap on Err(e): the panic hook prints e and the process ends
\* with status 101
Panic(e) ==
    /\ pc' = "Panicked"
    /\ stderr' = Append(stderr, PanicOf(e))
    /\ exit_status' = Some(101)

\* one handler call of the bdk_cli library: the wallet handlers are given
\* the wallet w, the key handler is given the network
Call(handler, w, name) ==
    [handler |-> handler,
     wallet |-> w,
     network |-> IF handler = "handle_key_subcommand" THEN Some(network) ELSE None,
     cmd |-> name]

\* line 264 and the return from main
PrintResultAndReturn(text) ==
    /\ stdout' = Append(stdout, text)
    /\ pc' = IF subcommand = "Repl" THEN "Terminated" ELSE "Exited"
    /\ exit_status' = Some(0)
    /\ stderr' = stderr

\* result.unwrap() of a one-shot arm, then line 264
UnwrapAndPrint(r) ==
    IF r.ok
    THEN PrintResultAndReturn(to_string_pretty(r.val))
    ELSE Panic(r.err) /\ stdout' = stdout

\* lines 161-169: wallet <online sub-command>
OneShotOnline ==
    /\ pc = "main"
    /\ subcommand = "Online"
    /\ UNCHANGED <<network, feature_esplora, subcommand, wallet_opts, env, reads, readline,
                   line, split_line, cycle>>
    /\ LET db == open_database(env)
           w == new_online_wallet(feature_esplora, wallet_opts, env, 1)
       IN  IF ~db.ok THEN
                /\ Panic(db.err)
                /\ UNCHANGED <<database, wallet, store, calls, stdout, result, config>>
           ELSE IF ~w.ok THEN
                /\ Panic(w.err)
                /\ database' = database + 1
                /\ config' = Some(BlockchainConfig(feature_esplora, wallet_opts))
                /\ UNCHANGED <<wallet, store, calls, stdout, result>>
           ELSE \E r \in HandlerResults, s2 \in {store, store + 1} :
                /\ database' = database + 1
                /\ config' = Some(BlockchainConfig(feature_esplora, wallet_opts))
                /\ wallet' = w.val
                /\ store' = s2
                /\ calls' = Append(calls, Call("handle_online_wallet_subcommand", w.val, sync_))
                /\ result' = Some(r)
                /\ UnwrapAndPrint(r)

\* lines 170-178: wallet <offline sub-command>
OneShotOffline ==
    /\ pc = "main"
    /\ subcommand = "Offline"
    /\ UNCHANGED <<network, feature_esplora, subcommand, wallet_opts, env, reads, readline,
                   line, split_line, cycle, config>>
    /\ LET db == open_database(env)
           w == new_offline_wallet(wallet_opts, env, 1)
       IN  IF ~db.ok THEN
                /\ Panic(db.err)
                /\ UNCHANGED <<database, wallet, store, calls, stdout, result>>
           ELSE IF ~w.ok THEN
                /\ Panic(w.err)
                /\ database' = database + 1
                /\ UNCHANGED <<wallet, store, calls, stdout, result>>
           ELSE \E r \in HandlerResults, s2 \in {store, store + 1} :
                /\ database' = database + 1
                /\ wallet' = w.val
                /\ store' = s2
                /\ calls' = Append(calls, Call("handle_offline_wallet_subcommand", w.val, get_new_address_))
                /\ result' = Some(r)
                /\ UnwrapAndPrint(r)

\* lines 179-184: key <key sub-command>
OneShotKey ==
    /\ pc = "main"
    /\ subcommand = "Key"
    /\ UNCHANGED <<network, feature_esplora, subcommand, wallet_opts, env, reads, readline,
                   line, split_line, cycle, config, database, wallet, store>>
    /\ \E r \in HandlerResults :
        /\ calls' = Append(calls, Call("handle_key_subcommand", NoWallet, generate_))
        /\ result' = Some(r)
        /\ UnwrapAndPrint(r)

\* lines 185-195: repl, up to the loop
ReplSetup ==
    /\ pc = "main"
    /\ subcommand = "Repl"
    /\ UNCHANGED <<network, feature_esplora, subcommand, wallet_opts, env, reads, readline,
                   line, split_line, cycle, store, calls, stdout, result>>
    /\ LET db == open_database(env)
           w == new_online_wallet(feature_esplora, wallet_opts, env, 1)
       IN  IF ~db.ok THEN
                /\ Panic(db.err)
                /\ UNCHANGED <<database, wallet, config>>
           ELSE IF ~w.ok THEN
                /\ Panic(w.err)
                /\ database' = database + 1
                /\ config' = Some(BlockchainConfig(feature_esplora, wallet_opts))
                /\ wallet' = wallet
           ELSE /\ database' = database + 1
                /\ config' = Some(BlockchainConfig(feature_esplora, wallet_opts))
                /\ wallet' = w.val
                /\ pc' = "Running"
                /\ UNCHANGED <<stderr, exit_status>>

----------------------------------------------------------------------------
(* The loop of the REPL, lines 197-257: one action per way through one      *)
(* iteration.  The editor's history (add_history_entry) is not kept.        *)

\* rl.readline(">> ") is called: the loop is running and input remains
Reading(kind) ==
    /\ pc = "Running"
    /\ reads < MaxReads
    /\ reads' = reads + 1
    /\ readline' = kind
    /\ UNCHANGED <<network, feature_esplora, subcommand, wallet_opts, env, database, wallet, config>>

\* mutant: the loop is left without the final message
Break_Silent(out) ==
    /\ stdout' = out
    /\ pc' = "Terminated"
    /\ exit_status' = Some(0)
    /\ stderr' = stderr

\* the break of the loop: lines 259-264
Break(out) ==
    /\ stdout' = Append(out, Literal("Exiting REPL"))
    /\ pc' = "Terminated"
    /\ exit_status' = Some(0)
    /\ stderr' = stderr

\* the handler of a parsed sub-command, lines 226-243
HandlerOf(variant) ==
    CASE variant = "OnlineWalletSubCommand" -> "handle_online_wallet_subcommand"
      [] variant = "OfflineWalletSubCommand" -> "handle_offline_wallet_subcommand"
      [] variant = "KeySubCommand" -> "handle_key_subcommand"

\* mutant: the key handler is given the wallet too
HandleOf_WalletToKey(variant, w) == w

\* mutant: the offline handler is given a wallet of its own
HandleOf_FreshOffline(variant, w) ==
    IF variant = "KeySubCommand" THEN NoWallet
    ELSE IF variant = "OfflineWalletSubCommand" THEN [kind |-> "offline", id |-> 2]
    ELSE w

\* the first argument of the handler call: &online_wallet for the wallet
\* handlers, the network (no wallet) for the key handler
HandleOf(variant, w) ==
    IF variant = "KeySubCommand" THEN NoWallet ELSE w

\* lines 200-203: a line that trims to the empty string
LoopBlank ==
    \E l \in ReplLines :
        /\ Reading("Ok")
        /\ Trim(l) = << >>
        /\ line' = l
        /\ cycle' = <<"read">>
        /\ result' = None
        /\ UNCHANGED <<pc, split_line, store, calls, stdout, stderr, exit_status>>

\* mutant: a line without tokens is taken for a blank line
LoopParseError_SkipsEmpty ==
    \E l \in ReplLines :
        LET parsed == from_iter_safe(SplitLine(l))
        IN  /\ Reading("Ok")
            /\ Trim(l) # << >>
            /\ ~parsed.ok
            /\ line' = l
            /\ split_line' = SplitLine(l)
            /\ cycle' = IF SplitLine(l) = << >> THEN <<"read", "split">>
                        ELSE <<"read", "split", "parse", "print">>
            /\ stdout' = IF SplitLine(l) = << >> THEN stdout
                         ELSE Append(stdout, DisplayOf(parsed.message))
            /\ result' = None
            /\ UNCHANGED <<pc, store, calls, stderr, exit_status>>

\* mutant: a parse error ends the loop
LoopParseError_Break ==
    \E l \in ReplLines :
        LET parsed == from_iter_safe(SplitLine(l))
        IN  /\ Reading("Ok")
            /\ Trim(l) # << >>
            /\ ~parsed.ok
            /\ line' = l
            /\ split_line' = SplitLine(l)
            /\ cycle' = <<"read", "split", "parse", "print", "break">>
            /\ result' = None
            /\ Break(Append(stdout, DisplayOf(parsed.message)))
            /\ UNCHANGED <<store, calls>>

\* lines 204-222: the line does not parse
LoopParseError ==
    \E l \in ReplLines :
        LET parsed == from_iter_safe(SplitLine(l))
        IN  /\ Reading("Ok")
            /\ Trim(l) # << >>
            /\ ~parsed.ok
            /\ line' = l
            /\ split_line' = SplitLine(l)
            /\ cycle' = <<"read", "split", "parse", "print">>
            /\ stdout' = Append(stdout, DisplayOf(parsed.message))
            /\ result' = None
            /\ UNCHANGED <<pc, store, calls, stderr, exit_status>>

\* mutant: the value of the handler is not printed in its iteration
LoopDispatch_NoRender ==
    \E l \in ReplLines, r \in HandlerResults, s2 \in {store, store + 1} :
        LET parsed == from_iter_safe(SplitLine(l))
        IN  /\ Reading("Ok")
            /\ Trim(l) # << >>
            /\ parsed.ok
            /\ parsed.variant # "Exit"
            /\ line' = l
            /\ split_line' = SplitLine(l)
            /\ calls' = Append(calls, Call(HandlerOf(parsed.variant),
                                           HandleOf(parsed.variant, wallet),
                                           parsed.name))
            /\ store' = IF parsed.variant = "KeySubCommand" THEN store ELSE s2
            /\ result' = Some(r)
            /\ stdout' = stdout
            /\ IF r.ok
               THEN /\ cycle' = <<"read", "split", "parse", "handle">>
                    /\ UNCHANGED <<pc, stderr, exit_status>>
               ELSE /\ Panic(r.err)
                    /\ cycle' = <<"read", "split", "parse", "handle", "panic">>

\* lines 204-248: the line parses to a sub-command of one of the handlers
LoopDispatch ==
    \E l \in ReplLines, r \in HandlerResults, s2 \in {store, store + 1} :
        LET parsed == from_iter_safe(SplitLine(l))
        IN  /\ Reading("Ok")
            /\ Trim(l) # << >>
            /\ parsed.ok
            /\ parsed.variant # "Exit"
            /\ line' = l
            /\ split_line' = SplitLine(l)
            /\ calls' = Append(calls, Call(HandlerOf(parsed.variant),
                                           HandleOf(parsed.variant, wallet),
                                           parsed.name))
            /\ store' = IF parsed.variant = "KeySubCommand" THEN store ELSE s2
            /\ result' = Some(r)
            /\ IF r.ok
               THEN /\ stdout' = Append(stdout, to_string_pretty(r.val))
                    /\ cycle' = <<"read", "split", "parse", "handle", "print">>
                    /\ UNCHANGED <<pc, stderr, exit_status>>
               ELSE /\ Panic(r.err)
                    /\ cycle' = <<"read", "split", "parse", "handle", "panic">>
                    /\ stdout' = stdout

\* mutant: exit is handed to the key handler before the loop is left
LoopExit_Dispatched ==
    \E l \in ReplLines :
        LET parsed == from_iter_safe(SplitLine(l))
        IN  /\ Reading("Ok")
            /\ Trim(l) # << >>
            /\ parsed.ok
            /\ parsed.variant = "Exit"
            /\ line' = l
            /\ split_line' = SplitLine(l)
            /\ cycle' = <<"read", "split", "parse", "handle", "break">>
            /\ result' = None
            /\ calls' = Append(calls, Call("handle_key_subcommand", NoWallet, parsed.name))
            /\ Break(stdout)
            /\ UNCHANGED <<store>>

\* line 242: the line parses to exit
LoopExit ==
    \E l \in ReplLines :
        LET parsed == from_iter_safe(SplitLine(l))
        IN  /\ Reading("Ok")
            /\ Trim(l) # << >>
            /\ parsed.ok
            /\ parsed.variant = "Exit"
            /\ line' = l
            /\ split_line' = SplitLine(l)
            /\ cycle' = <<"read", "split", "parse", "break">>
            /\ result' = None
            /\ Break(stdout)
            /\ UNCHANGED <<store, calls>>

\* mutant: an interrupt ends the loop
LoopInterrupted_Break ==
    /\ Reading("Interrupted")
    /\ cycle' = <<"read", "break">>
    /\ result' = None
    /\ Break(stdout)
    /\ UNCHANGED <<line, split_line, store, calls>>

\* line 250
LoopInterrupted ==
    /\ Reading("Interrupted")
    /\ cycle' = <<"read">>
    /\ result' = None
    /\ UNCHANGED <<pc, line, split_line, store, calls, stdout, stderr, exit_status>>

\* line 251
LoopEof ==
    /\ Reading("Eof")
    /\ cycle' = <<"read", "break">>
    /\ result' = None
    /\ Break(stdout)
    /\ UNCHANGED <<line, split_line, store, calls>>

\* lines 252-255
LoopReadError ==
    \E e \in ReadlineErrors :
        /\ Reading("Err")
        /\ cycle' = <<"read", "print", "break">>
        /\ result' = None
        /\ Break(Append(stdout, DebugOf(e)))
        /\ UNCHANGED <<line, split_line, store, calls>>

Next ==
    \/ OneShotOnline
    \/ OneShotOffline
    \/ OneShotKey
    \/ ReplSetup
    \/ LoopBlank
    \/ LoopParseError
    \/ LoopDispatch
    \/ LoopExit
    \/ LoopInterrupted
    \/ LoopEof
    \/ LoopReadError

Spec == Init /\ [][Next]_vars

----------------------------------------------------------------------------
(* The line splitter on its own: every line of TokLines is split once.      *)

InitTok ==
    /\ pc = "tok"
    /\ network = "testnet"
    /\ feature_esplora = FALSE
    /\ subcommand = "Repl"
    /\ wallet_opts \in WalletOptsOf(FALSE)
    /\ env = [db_ok |-> TRUE, backend_ok |-> TRUE, descriptor_ok |-> TRUE]
    /\ line \in TokLines
    /\ Untouched

\* lines 205-214 applied to line
Tokenize ==
    /\ pc = "tok"
    /\ split_line' = SplitLine(line)
    /\ pc' = "tok_done"
    /\ UNCHANGED <<network, feature_esplora, subcommand, wallet_opts, env, database, wallet,
                   store, reads, readline, line, cycle, result, config,
                   calls, stdout, stderr, exit_status>>

NextTok == Tokenize

SpecTok == InitTok /\ [][NextTok]_vars

----------------------------------------------------------------------------
(* Properties of main, checked under Spec *)

Last(q) == q[Len(q)]

\* the last readline returned a line that is not blank
ReadNonBlank ==
    /\ reads' = reads + 1
    /\ readline' = "Ok"
    /\ \E k \in 1..Len(line') : line'[k] \notin {" ", "\t"}

\* the last readline returned an empty or whitespace-only line
ReadBlank ==
    /\ reads' = reads + 1
    /\ readline' = "Ok"
    /\ \A k \in 1..Len(line') : line'[k] \in {" ", "\t"}

\* the tokens of each line of ReplLines, and what they parse to
TokensOf == [l \in ReplLines |-> SplitLine(l)]
ParsedOf == [l \in ReplLines |-> from_iter_safe(SplitLine(l))]

\* what the line just read parses to
ParsedNext == ParsedOf[line']

\* the handler called in the last iteration returned an error
HandlerFailed == result # None /\ ~result[1].ok

\* C1: in the REPL, when the handler of a command returns an error, the
\* error is written to the output and the loop keeps running.
C1_ErrorKeepsRunning ==
    (subcommand = "Repl" /\ HandlerFailed)
        => /\ pc = "Running"
           /\ stdout # << >>
           /\ Last(stdout).of = result[1].err

\* C2: the blockchain config built by new_online_wallet is the Esplora one,
\* from the base URL and the concurrency, whenever an Esplora base URL is
\* given, and the Electrum one, from url, proxy, retries and timeout,
\* otherwise; building it never fails, whatever the collaborators answer.
C2_BackendPrecedence ==
    /\ (database > 0 /\ subcommand \in {"Online", "Repl"}) => config # None
    /\ config # None =>
        /\ wallet_opts.esplora # None =>
              config[1] = [kind |-> "Esplora",
                           base_url |-> wallet_opts.esplora[1],
                           concurrency |-> <<wallet_opts.esplora_concurrency>>]
        /\ wallet_opts.esplora = None =>
              config[1] = [kind |-> "Electrum",
                           url |-> wallet_opts.electrum,
                           socks5 |-> wallet_opts.proxy,
                           retry |-> wallet_opts.retries,
                           timeout |-> wallet_opts.timeout]

\* C2 witness: an Esplora URL and an Electrum proxy were both given, the
\* backend was not reachable, and the Esplora config was built
C2_Witness ==
    /\ config # None
    /\ wallet_opts.esplora # None
    /\ wallet_opts.proxy # None
    /\ ~env.backend_ok
    /\ config[1].kind = "Esplora"

\* C3: a line that parses to exit ends the loop without a handler call,
\* whatever was done before; once the loop has ended no line is read.
C3_ExitTerminates ==
    [][ /\ (pc = "Running" /\ ReadNonBlank /\ ParsedNext.ok /\ ParsedNext.variant = "Exit")
            => (pc' = "Terminated" /\ calls' = calls /\ result' = None)
        /\ pc = "Terminated" => (reads' = reads /\ calls' = calls)
      ]_vars

\* C3 witness: exit was read after two commands had been handled
C3_Witness ==
    /\ pc = "Terminated"
    /\ readline = "Ok"
    /\ split_line = <<exit_>>
    /\ Len(calls) = 2
    /\ reads = 3

\* C4: a non-blank line that does not parse prints the message of the parse
\* error, calls no handler, leaves the wallet and its records as they were,
\* and the loop keeps running.
C4_ParseErrorContinues ==
    [][ (pc = "Running" /\ ReadNonBlank /\ ~ParsedNext.ok)
            => /\ pc' = "Running"
               /\ stdout' = Append(stdout, DisplayOf(ParsedNext.message))
               /\ calls' = calls
               /\ result' = None
               /\ <<wallet, store, database, config>>' = <<wallet, store, database, config>>
               /\ stderr' = stderr
      ]_vars

\* C4 witness: an unknown sub-command was read after a wallet command had
\* changed the records
C4_Witness ==
    /\ pc = "Running"
    /\ readline = "Ok"
    /\ line = <<"b", "a", "d">>
    /\ Last(stdout) = DisplayOf("UnrecognizedSubcommand")
    /\ store = 1
    /\ Len(calls) = 1

\* C5: an empty or whitespace-only line is not split, not parsed, not
\* handled and prints nothing; the loop keeps running.
C5_BlankLineIsNoOp ==
    [][ (pc = "Running" /\ ReadBlank)
            => /\ pc' = "Running"
               /\ cycle' = <<"read">>
               /\ split_line' = split_line
               /\ stdout' = stdout
               /\ stderr' = stderr
               /\ calls' = calls
               /\ store' = store
      ]_vars

\* C5 witness: a line of a tab and a space was read after a command
C5_Witness ==
    /\ pc = "Running"
    /\ readline = "Ok"
    /\ line = <<"\t", " ">>
    /\ cycle = <<"read">>
    /\ split_line # << >>
    /\ stdout # << >>

\* C6: a REPL session that leaves the loop by exit, by end of input or by
\* a read error is terminated with the message Exiting REPL as the last
\* line of the output, and reads no more input.
C6_TerminationMessageLast ==
    [][ /\ (pc = "Running" /\ reads' = reads + 1
            /\ \/ readline' \in {"Eof", "Err"}
               \/ (ReadNonBlank /\ ParsedNext.ok /\ ParsedNext.variant = "Exit"))
            => /\ pc' = "Terminated"
               /\ Len(stdout') > Len(stdout)
               /\ SubSeq(stdout', 1, Len(stdout)) = stdout
               /\ Last(stdout') = Literal("Exiting REPL")
        /\ pc = "Terminated" => (reads' = reads /\ stdout' = stdout)
      ]_vars

\* C6 witness: the session ended on a read error, whose text is printed
\* before the final message
C6_Witness ==
    /\ pc = "Terminated"
    /\ readline = "Err"
    /\ Len(stdout) >= 3
    /\ stdout[Len(stdout) - 1].fmt = "debug"
    /\ Last(stdout) = Literal("Exiting REPL")

\* setup of a one-shot command succeeds
SetupOk ==
    CASE subcommand = "Online" -> env.db_ok /\ env.backend_ok /\ env.descriptor_ok
      [] subcommand = "Offline" -> env.db_ok /\ env.descriptor_ok
      [] OTHER -> TRUE

C10_ErrorsRenderedLikeValues ==
    /\ HandlerFailed =>
          (stdout # << >> /\ Last(stdout) = to_string_pretty(result[1].err))
    /\ \A k \in 1..Len(stdout) :
          stdout[k].fmt = "display" => subcommand = "Repl"

----------------------------------------------------------------------------
(* Properties of the line splitter, checked under SpecTok *)

\* positions a..b of s are a quoted run: quote q, no q inside, quote q
QuotedRun(s, q, a, b) ==
    /\ a < b
    /\ s[a] = q
    /\ s[b] = q
    /\ \A k \in (a + 1)..(b - 1) : s[k] # q

\* positions a..b of s are a maximal run of word characters and dashes
WordRun(s, a, b) ==
    /\ a <= b
    /\ \A k \in a..b : IsWordOrDash(s[k])
    /\ a = 1 \/ ~IsWordOrDash(s[a - 1])
    /\ b = Len(s) \/ ~IsWordOrDash(s[b + 1])

\* position i of s lies in one of the matches
Covered(s, i) ==
    \E k \in 1..Len(captures_iter(s, 1)) :
        captures_iter(s, 1)[k].first <= i /\ i <= captures_iter(s, 1)[k].last

\* position i of s is an opening quote with no closing quote after it
UnterminatedQuoteAt(s, i) ==
    /\ s[i] \in {DQ, SQ}
    /\ ~Covered(s, i)
    /\ \A k \in (i + 1)..Len(s) : s[k] # s[i]

word123 ==
    <<"w", "o", "r", "d", "1", " ", "w", "o", "r", "d", "2", " ",
      "w", "o", "r", "d", "3">>

\* the vector asserted by test_regex_double_quotes
ExpectedDouble ==
    <<restore_, dash_m, word123, dash_p,
      <<"t", "e", "s", "t", "!", " ", "1", "2", "3", " ", "-", "t", "e", "s", "t">> >>

\* the vector asserted by test_regex_single_quotes
ExpectedSingle ==
    <<restore_, dash_m, word123, dash_p,
      <<"t", "e", "s", "t", " ", "*", "1", "2", "3", " ", "-", "t", "e", "s", "t">> >>

\* C7: the tokens are, in the order of the line, the interiors of the
\* terminated double-quoted and single-quoted runs and the maximal runs of
\* word characters and dashes outside them, and nothing else; the lines of
\* the two unit tests give the five tokens the tests assert.
C7_Tokens ==
    pc = "tok_done" =>
        LET caps == captures_iter(line, 1)
        IN  /\ Len(split_line) = Len(caps)
            /\ \A k \in 1..Len(caps) :
                LET a == caps[k].first
                    b == caps[k].last
                IN  /\ k > 1 => caps[k - 1].last < a
                    /\ \/ /\ QuotedRun(line, DQ, a, b)
                          /\ split_line[k] = SubSeq(line, a + 1, b - 1)
                       \/ /\ QuotedRun(line, SQ, a, b)
                          /\ split_line[k] = SubSeq(line, a + 1, b - 1)
                       \/ /\ WordRun(line, a, b)
                          /\ split_line[k] = SubSeq(line, a, b)
            /\ \A i \in 1..Len(line) :
                ~Covered(line, i) =>
                    /\ ~IsWordOrDash(line[i])
                    /\ line[i] \in {DQ, SQ} =>
                          \A k \in (i + 1)..Len(line) : line[k] # line[i]
            /\ line = TestLineDouble => split_line = ExpectedDouble
            /\ line = TestLineSingle => split_line = ExpectedSingle

\* C7 witness: the line of test_regex_double_quotes has been split in five
C7_Witness ==
    /\ pc = "tok_done"
    /\ line = TestLineDouble
    /\ Len(split_line) = 5
    /\ split_line[3] = word123

\* C8 as the claim states it: nothing after an unterminated quote gives a token.
C8_UnterminatedRunDropped ==
    pc = "tok_done" =>
        \A i \in 1..Len(line) :
            UnterminatedQuoteAt(line, i) =>
                \A k \in 1..Len(captures_iter(line, 1)) :
                    captures_iter(line, 1)[k].last < i

\* C8 amended: only the unterminated quote character itself is dropped; the
\* line is split as its part before the quote followed by its part after
\* the quote, so every word character or dash after the quote still ends up
\* in a token, and the unwrap of the groups never fails.
C8_OnlyQuoteDropped ==
    pc = "tok_done" =>
        /\ \A i \in 1..Len(line) :
            UnterminatedQuoteAt(line, i) =>
                /\ split_line = SplitLine(SubSeq(line, 1, i - 1))
                                   \o SplitLine(SubSeq(line, i + 1, Len(line)))
                /\ \A j \in (i + 1)..Len(line) :
                      IsWordOrDash(line[j]) =>
                          \E k \in 1..Len(split_line) :
                              \E n \in 1..Len(split_line[k]) : split_line[k][n] = line[j]
        /\ \A k \in 1..Len(captures_iter(line, 1)) :
              Unwrapped(captures_iter(line, 1)[k]) # << >>

\* C8 witness: a double quote that is never closed, followed by two words
C8_Witness ==
    /\ pc = "tok_done"
    /\ line = <<DQ, "a", " ", "a">>
    /\ UnterminatedQuoteAt(line, 1)
    /\ split_line = << <<"a">>, <<"a">> >>

----------------------------------------------------------------------------
(* More properties of main, checked under Spec *)

\* a handler was called in this step
Called == Len(calls') = Len(calls) + 1

C12_OfflineWithoutBackend ==
    (subcommand \in {"Offline", "Repl"} /\ env.db_ok /\ env.descriptor_ok)
        => ~(pc = "Panicked" /\ calls = << >>)

\* C13: when the store does not open, the backend does not connect or the
\* wallet is not built, the REPL reads no line, prints nothing and calls no
\* handler; the loop only runs with the wallet built.
C13_NoLoopAfterFailedSetup ==
    subcommand = "Repl" =>
        /\ ~(env.db_ok /\ env.backend_ok /\ env.descriptor_ok) =>
              /\ pc \in {"main", "Panicked"}
              /\ reads = 0
              /\ readline = "none"
              /\ calls = << >>
              /\ stdout = << >>
              /\ wallet = [kind |-> "none"]
        /\ (pc = "Running" \/ reads > 0) =>
              /\ wallet.kind = "online"
              /\ database = 1
              /\ config = <<wallet.blockchain>>

\* C13 witness: the REPL was asked for with an unreachable backend and has
\* panicked in setup
C13_Witness ==
    /\ subcommand = "Repl"
    /\ env.db_ok /\ env.descriptor_ok /\ ~env.backend_ok
    /\ pc = "Panicked"
    /\ reads = 0
    /\ stderr = <<PanicOf("Blockchain")>>

\* C14: an interrupt while reading a line leaves the loop running, calls no
\* handler and prints nothing; the loop is left for Terminated only on end
\* of input, on another read error or on exit.
C14_InterruptContinues ==
    [][ /\ (pc = "Running" /\ reads' = reads + 1 /\ readline' = "Interrupted")
            => /\ pc' = "Running"
               /\ calls' = calls
               /\ stdout' = stdout
               /\ stderr' = stderr
               /\ store' = store
        /\ (pc = "Running" /\ pc' = "Terminated")
            => \/ readline' \in {"Eof", "Err"}
               \/ (ReadNonBlank /\ ParsedNext.ok /\ ParsedNext.variant = "Exit")
      ]_vars

\* C14 witness: two interrupts in a row, the loop still running
C14_Witness ==
    /\ pc = "Running"
    /\ readline = "Interrupted"
    /\ reads = 2
    /\ calls = << >>
    /\ stdout = << >>

----------------------------------------------------------------------------
(* More properties of the line splitter, checked under SpecTok *)

\* the tokens joined with single spaces
RECURSIVE Join(_)
Join(tokens) ==
    IF tokens = << >> THEN << >>
    ELSE IF Len(tokens) = 1 THEN tokens[1]
    ELSE tokens[1] \o <<" ">> \o Join(Tail(tokens))

\* every quote of s is part of a terminated quoted run
Balanced(s) ==
    \A i \in 1..Len(s) : ~UnterminatedQuoteAt(s, i)

\* t is a non-empty run of word characters and dashes
PlainToken(t) ==
    /\ t # << >>
    /\ \A n \in 1..Len(t) : t[n] \in WordChars \cup {"-"}

\* C15 as the claim states it: for a line with balanced quotes, splitting
\* the joined tokens of the joined tokens gives the tokens of the joined
\* tokens, and splitting the joined tokens gives the tokens of the line.
C15_RoundTrip ==
    (pc = "tok_done" /\ Balanced(line)) =>
        /\ SplitLine(Join(SplitLine(Join(split_line)))) = SplitLine(Join(split_line))
        /\ SplitLine(Join(split_line)) = split_line

\* C15 amended: splitting the joined tokens gives the tokens of the line
\* exactly when every token is a non-empty run of word characters and
\* dashes, and then splitting is idempotent on the joined tokens.
C15_RoundTripOfPlainTokens ==
    pc = "tok_done" =>
        /\ (SplitLine(Join(split_line)) = split_line)
              <=> (\A k \in 1..Len(split_line) : PlainToken(split_line[k]))
        /\ (\A k \in 1..Len(split_line) : PlainToken(split_line[k])) =>
              SplitLine(Join(SplitLine(Join(split_line)))) = SplitLine(Join(split_line))

\* C15 witness: a line with a quoted and an unquoted plain token
C15_Witness ==
    /\ pc = "tok_done"
    /\ line = <<DQ, "-", DQ, "a">>
    /\ split_line = << <<"-">>, <<"a">> >>
    /\ SplitLine(Join(split_line)) = split_line

\* splitting is not idempotent on the joined tokens of this balanced line
C15_NotIdempotentHere ==
    /\ pc = "tok_done"
    /\ line = <<SQ, DQ, DQ, SQ>>
    /\ Balanced(line)
    /\ SplitLine(Join(SplitLine(Join(split_line)))) # SplitLine(Join(split_line))

\* position i of s lies in a terminated quoted run, delimiters included
InQuotedRun(s, i) ==
    \E k \in 1..Len(captures_iter(s, 1)) :
        /\ captures_iter(s, 1)[k].g3 = << >>
        /\ captures_iter(s, 1)[k].first <= i
        /\ i <= captures_iter(s, 1)[k].last

\* C19: outside terminated quoted runs, a character that is neither a word
\* character nor a dash, a lone unmatched quote included, is in no token
\* and separates tokens: the tokens of the line are the tokens of what is
\* before it followed by the tokens of what is after it.
C19_OtherCharactersSeparate ==
    pc = "tok_done" =>
        \A i \in 1..Len(line) :
            (line[i] \notin WordChars \cup {"-"} /\ ~InQuotedRun(line, i)) =>
                /\ ~Covered(line, i)
                /\ split_line = SplitLine(SubSeq(line, 1, i - 1))
                                   \o SplitLine(SubSeq(line, i + 1, Len(line)))
                /\ (i > 1 /\ i < Len(line)
                    /\ line[i - 1] \in WordChars \cup {"-"} /\ ~InQuotedRun(line, i - 1)
                    /\ line[i + 1] \in WordChars \cup {"-"} /\ ~InQuotedRun(line, i + 1))
                        => Len(split_line) >= 2

\* C19 witness: an unquoted argument with an exclamation mark in it is
\* split in two
C19_Witness ==
    /\ pc = "tok_done"
    /\ line = <<"a", "!", "-", "a">>
    /\ split_line = << <<"a">>, <<"-", "a">> >>

----------------------------------------------------------------------------
(* Properties of the dispatch and of the wallet session, checked under Spec *)

\* the handler the claim names for a variant of the parsed sub-command
FamilyOf(variant) ==
    CASE variant = "OnlineWalletSubCommand" -> "handle_online_wallet_subcommand"
      [] variant = "OfflineWalletSubCommand" -> "handle_offline_wallet_subcommand"
      [] variant = "KeySubCommand" -> "handle_key_subcommand"

\* what the handler returned in this step, value or error
Returned == IF result'[1].ok THEN result'[1].val ELSE result'[1].err

\* C16 as the claim states it: a parsed sub-command other than exit calls
\* exactly one handler, the one of its family, once; and whatever a handler
\* returns, value or error, is what is rendered to the output.
C16_DispatchOnceAndRender ==
    [][ /\ (pc = "Running" /\ ReadNonBlank /\ ParsedNext.ok /\ ParsedNext.variant # "Exit")
            => /\ Called
               /\ Last(calls').handler = FamilyOf(ParsedNext.variant)
               /\ Last(calls').cmd = ParsedNext.name
        /\ calls' # calls
            => /\ Called
               /\ result' # << >>
               /\ stdout' = Append(stdout, to_string_pretty(Returned))
      ]_vars

\* the number of times stage occurs in the stages q
Occurrences(q, stage) == Cardinality({k \in 1..Len(q) : q[k] = stage})

\* C17: iterations of the loop do not overlap: each starts with one
\* readline, which prints the prompt and reads; at most one handler is
\* called per readline; the value of a handled command is printed in the
\* iteration that handled it, before the loop goes on to the next readline;
\* nothing is printed or handled outside an iteration.
C17_CyclesDoNotOverlap ==
    [][ subcommand = "Repl" =>
          /\ calls' # calls => (Called /\ reads' = reads + 1)
          /\ stdout' # stdout => reads' = reads + 1
          /\ reads' \in {reads, reads + 1}
          /\ reads' = reads + 1 =>
                /\ cycle'[1] = "read"
                /\ Occurrences(cycle', "read") = 1
                /\ Occurrences(cycle', "handle") = (IF Called THEN 1 ELSE 0)
          /\ (Called /\ pc' = "Running") =>
                /\ stdout' = Append(stdout, to_string_pretty(result'[1].val))
                /\ cycle'[Len(cycle')] = "print"
                /\ cycle'[Len(cycle') - 1] = "handle"
      ]_vars

\* C17 witness: two commands handled and printed in two iterations
C17_Witness ==
    /\ pc = "Running"
    /\ reads = 2
    /\ Len(calls) = 2
    /\ Len(stdout) = 2
    /\ cycle = <<"read", "split", "parse", "handle", "print">>

\* C18: the store is opened and the wallet built once, before the first
\* readline; every online and every offline command of the session is
\* given that wallet; no iteration opens the store or builds a wallet; once
\* terminated the wallet is used no more.
C18_OneWalletPerSession ==
    [][ subcommand = "Repl" =>
          /\ (pc = "main" /\ pc' = "Running") =>
                /\ database' = 1
                /\ wallet'.kind = "online"
                /\ reads' = 0
          /\ pc \in {"Running", "Terminated", "Panicked"} =>
                <<wallet, database, config>>' = <<wallet, database, config>>
          /\ (Called /\ Last(calls').handler # "handle_key_subcommand") =>
                /\ Last(calls').wallet = wallet
                /\ wallet.kind = "online"
                /\ database = 1
          /\ pc = "Terminated" => (calls' = calls /\ store' = store)
      ]_vars

\* C18 witness: an online and an offline command were given the one wallet
\* of the session, which has then terminated
C18_Witness ==
    /\ pc = "Terminated"
    /\ database = 1
    /\ Len(calls) = 2
    /\ calls[1].handler = "handle_online_wallet_subcommand"
    /\ calls[2].handler = "handle_offline_wallet_subcommand"
    /\ calls[1].wallet = wallet
    /\ calls[2].wallet = wallet

\* C20: a line that is not blank but has no token is not skipped as a
\* blank line: its empty token list is parsed, and as the parser rejects
\* it, the message is printed, no handler is called and the loop keeps
\* running.
C20_TokenlessLineIsParsed ==
    [][ (pc = "Running" /\ ReadNonBlank /\ TokensOf[line'] = << >>)
            => /\ split_line' = << >>
               /\ Len(cycle') >= 3
               /\ cycle'[3] = "parse"
               /\ ~from_iter_safe(<< >>).ok =>
                     /\ stdout' = Append(stdout, DisplayOf(from_iter_safe(<< >>).message))
                     /\ calls' = calls
                     /\ pc' = "Running"
      ]_vars

\* C20 witness: the line of three exclamation marks was read after a command
C20_Witness ==
    /\ pc = "Running"
    /\ line = <<"!", "!", "!">>
    /\ split_line = << >>
    /\ cycle = <<"read", "split", "parse", "print">>
    /\ Len(stdout) = 2
    /\ Last(stdout) = DisplayOf("MissingArgumentOrSubcommand")

====
